---- MODULE Spec2Model ----
(***************************************************************************)
(* The dynamic onboarding conversation of VEREATY_Backend: the endpoints   *)
(* of api/v1/endpoints/onboarding/onboardings.py and the question engine   *)
(* of utils/onboarding_function.py.                                        *)
(* Texts are TLA+ strings and are processed character by character, as the *)
(* Python code does with str methods and regular expressions.              *)
(***************************************************************************)
EXTENDS Integers, Sequences, FiniteSets, TLC

VARIABLES
    turns,        \* rows of onboarding_requests of the session, by created_at
    is_complete,  \* OnboardingSession.is_complete
    now,          \* int(time.time()), the wall clock in seconds
    resp,         \* what the last endpoint call returned to its caller
    odd,          \* how many off-script events the run has spent (model bound)
    sessions,     \* rows of onboarding_sessions, each with its onboarding_requests
    inflight      \* the respond calls in flight: where each is, and its locals

vars == <<turns, is_complete, now, resp, odd, sessions, inflight>>

(***************************************************************************)
(* Python str primitives.                                                  *)
(***************************************************************************)
None == "<None>"

\* a local variable: the value x is computed once and F is applied to it
Bind(x, F(_)) == F(x)

CharAt(s, i) == SubSeq(s, i, i)

LowerLetters == "abcdefghijklmnopqrstuvwxyz"
UpperLetters == "ABCDEFGHIJKLMNOPQRSTUVWXYZ"
DigitChars == "0123456789"

RECURSIVE CharSet(_)
CharSet(s) == IF s = "" THEN {} ELSE {Head(s)} \cup CharSet(Tail(s))

LowerSet == CharSet(LowerLetters)
UpperSet == CharSet(UpperLetters)
DigitSet == CharSet(DigitChars)
SpaceSet == {" ", "\t", "\n", "\r"}

RECURSIVE IndexIn(_, _, _)
IndexIn(c, alphabet, i) ==
    IF i > Len(alphabet) THEN 0
    ELSE IF CharAt(alphabet, i) = c THEN i
    ELSE IndexIn(c, alphabet, i + 1)

LowerChar(c) ==
    IF c \in UpperSet THEN CharAt(LowerLetters, IndexIn(c, UpperLetters, 1)) ELSE c

UpperChar(c) ==
    IF c \in LowerSet THEN CharAt(UpperLetters, IndexIn(c, LowerLetters, 1)) ELSE c

\* the characters lo..hi of s, each lower-cased (halving keeps the recursion shallow)
RECURSIVE LowerRange(_, _, _)
LowerRange(s, lo, hi) ==
    IF lo > hi THEN ""
    ELSE IF lo = hi THEN LowerChar(CharAt(s, lo))
    ELSE LowerRange(s, lo, (lo + hi) \div 2) \o LowerRange(s, (lo + hi) \div 2 + 1, hi)

\* str.lower()
Lower(s) == LowerRange(s, 1, Len(s))

Min(S) == CHOOSE x \in S : \A y \in S : x <= y
Max(S) == CHOOSE x \in S : \A y \in S : x >= y

\* the longest prefix of s made of characters of set cs: what a greedy [..]* takes
SpanLen(s, cs) ==
    Min({i \in 1..(Len(s) + 1) : i = Len(s) + 1 \/ CharAt(s, i) \notin cs}) - 1

\* str.lstrip() / str.rstrip() / str.strip()
LStrip(s) == SubSeq(s, SpanLen(s, SpaceSet) + 1, Len(s))

RStrip(s) ==
    LET trailing == Min({k \in 0..Len(s) : k = Len(s) \/ CharAt(s, Len(s) - k) \notin SpaceSet})
    IN  SubSeq(s, 1, Len(s) - trailing)

Strip(s) == LStrip(RStrip(s))

\* s.startswith(p)
StartsWith(s, p) == Len(s) >= Len(p) /\ SubSeq(s, 1, Len(p)) = p

\* s.endswith(p)
EndsWith(s, p) == Len(s) >= Len(p) /\ SubSeq(s, Len(s) - Len(p) + 1, Len(s)) = p

\* sub in s
Contains(s, sub) ==
    \E i \in 1..(Len(s) - Len(sub) + 1) : SubSeq(s, i, i + Len(sub) - 1) = sub

\* s.count(c) for a one-character c
CountChar(s, c) == Cardinality({i \in 1..Len(s) : CharAt(s, i) = c})

\* s.split('\n')
SplitLines(s) ==
    LET nl == {i \in 1..Len(s) : CharAt(s, i) = "\n"}
        \* the k-th separator: 0, the newlines in order, Len(s) + 1
        cut(k) == IF k = 0 THEN 0
                  ELSE IF k > Cardinality(nl) THEN Len(s) + 1
                  ELSE CHOOSE i \in nl : Cardinality({j \in nl : j < i}) = k - 1
    IN  [k \in 1..(Cardinality(nl) + 1) |-> SubSeq(s, cut(k - 1) + 1, cut(k) - 1)]

\* s[k:] (k counted from 0, k >= 0)
From(s, k) == SubSeq(s, k + 1, Len(s))

\* s[-k:]
LastChars(s, k) == IF Len(s) <= k THEN s ELSE SubSeq(s, Len(s) - k + 1, Len(s))

(***************************************************************************)
(* DynamicConversationEngine._generate_preference_key_from_question        *)
(***************************************************************************)
\* concept_mappings, in the dict's insertion order
ConceptMappings == <<
    <<"breakfast", "breakfast">>, <<"lunch", "lunch">>, <<"dinner", "dinner">>,
    <<"snack", "snack">>, <<"spice", "spice">>, <<"cooking", "cooking">>,
    <<"meal", "meal">>, <<"food", "food">>, <<"eat", "eating">>,
    <<"drink", "beverage">>, <<"time", "timing">>, <<"prefer", "preference">>,
    <<"like", "preference">>, <<"portion", "portion">>,
    <<"vegetable", "vegetable">>, <<"fruit", "fruit">>, <<"protein", "protein">>,
    <<"grain", "grain">>, <<"dairy", "dairy">>, <<"sweet", "sweet">>,
    <<"salty", "salty">>, <<"hot", "temperature">>, <<"cold", "temperature">>,
    <<"texture", "texture">>, <<"budget", "budget">>, <<"shop", "shopping">>,
    <<"leftover", "leftover">>, <<"weekend", "weekend">>,
    <<"season", "seasonal">>, <<"outside", "dining_out">>,
    <<"restaurant", "dining_out">>, <<"kitchen", "kitchen">>,
    <<"equipment", "equipment">>, <<"prep", "preparation">> >>

FallbackKeys == <<
    "food_habits", "eating_style", "meal_pattern", "dietary_choice",
    "cooking_method", "flavor_profile", "portion_control", "meal_timing",
    "nutrition_focus", "food_enjoyment" >>

InSeq(x, seq) == \E i \in 1..Len(seq) : seq[i] = x

\* the loop over concept_mappings.items(): a concept is appended once
RECURSIVE ConceptsFrom(_, _, _)
ConceptsFrom(question_lower, i, key_concepts) ==
    IF i > Len(ConceptMappings) THEN key_concepts
    ELSE ConceptsFrom(question_lower, i + 1,
            IF Contains(question_lower, ConceptMappings[i][1])
               /\ ~InSeq(ConceptMappings[i][2], key_concepts)
            THEN Append(key_concepts, ConceptMappings[i][2])
            ELSE key_concepts)

\* the if/elif chain of "additional specific patterns" (appends without a check)
SpecificPattern(question_lower) ==
    IF Contains(question_lower, "how often") \/ Contains(question_lower, "frequency")
        THEN <<"frequency">>
    ELSE IF Contains(question_lower, "how much") \/ Contains(question_lower, "amount")
        THEN <<"amount">>
    ELSE IF Contains(question_lower, "when") THEN <<"timing">>
    ELSE IF Contains(question_lower, "where") THEN <<"location">>
    ELSE IF Contains(question_lower, "what type") \/ Contains(question_lower, "which")
        THEN <<"type">>
    ELSE <<>>

KeyChars == LowerSet \cup DigitSet \cup {"_"}

\* re.sub(r'[^a-z0-9_]', '_', s)
RECURSIVE ReplaceNonKeyChars(_)
ReplaceNonKeyChars(s) ==
    IF s = "" THEN ""
    ELSE IF Len(s) = 1 THEN (IF s \in KeyChars THEN s ELSE "_")
    ELSE ReplaceNonKeyChars(SubSeq(s, 1, Len(s) \div 2))
            \o ReplaceNonKeyChars(SubSeq(s, Len(s) \div 2 + 1, Len(s)))

\* re.sub(r'_+', '_', s)
\* of each run of underscores the last one is kept
RECURSIVE CollapseRange(_, _, _)
CollapseRange(s, lo, hi) ==
    IF lo > hi THEN ""
    ELSE IF lo = hi
        THEN (IF CharAt(s, lo) = "_" /\ lo < Len(s) /\ CharAt(s, lo + 1) = "_"
              THEN "" ELSE CharAt(s, lo))
    ELSE CollapseRange(s, lo, (lo + hi) \div 2)
            \o CollapseRange(s, (lo + hi) \div 2 + 1, hi)

CollapseUnderscores(s) == CollapseRange(s, 1, Len(s))

\* s.strip('_')
StripUnderscores(s) ==
    LET t == SubSeq(s, SpanLen(s, {"_"}) + 1, Len(s))
        trailing == Min({k \in 0..Len(t) : k = Len(t) \/ CharAt(t, Len(t) - k) # "_"})
    IN  SubSeq(t, 1, Len(t) - trailing)

GeneratePreferenceKeyFromQuestion(question, question_num) ==
    LET question_lower == Lower(question)
        key_concepts == ConceptsFrom(question_lower, 1, <<>>)
                            \o SpecificPattern(question_lower)
        preference_key ==
            IF key_concepts # <<>>
            THEN IF Len(key_concepts) = 1
                 THEN key_concepts[1] \o "_preference"
                 ELSE key_concepts[1] \o "_" \o key_concepts[2]
            ELSE FallbackKeys[(question_num % Len(FallbackKeys)) + 1]
    IN  StripUnderscores(CollapseUnderscores(ReplaceNonKeyChars(Lower(preference_key))))

(***************************************************************************)
(* DynamicConversationEngine._flexible_parse_response                      *)
(***************************************************************************)
\* lines = [line.strip() for line in ai_text.split('\n') if line.strip()]
StrippedLines(ai_text) ==
    LET raw == SplitLines(ai_text)
        stripped == [i \in 1..Len(raw) |-> Strip(raw[i])]
    IN  SelectSeq(stripped, LAMBDA l : l # "")

\* Each matcher returns group(1), or "" when re.match finds no match (a group
\* of these patterns is never empty: the line is stripped and `.+` takes a char).
\* r'^Question:\s*(.+)$', re.IGNORECASE
MatchQuestionLabel(line) ==
    IF StartsWith(Lower(line), "question:") /\ Len(line) > 9
    THEN LStrip(From(line, 9)) ELSE ""

\* r'^Q\d*[:.]\s*(.+)$', re.IGNORECASE
MatchQNumber(line) ==
    IF line # "" /\ LowerChar(Head(line)) = "q"
    THEN LET d == SpanLen(Tail(line), DigitSet)
         IN  IF Len(line) > d + 2 /\ CharAt(line, d + 2) \in {":", "."}
             THEN LStrip(From(line, d + 2)) ELSE ""
    ELSE ""

\* r'^\d+[.)]\s*(.+\?)$'
MatchNumberedQuestion(line) ==
    LET d == SpanLen(line, DigitSet)
        rem == From(line, d + 1)
    IN  IF d >= 1 /\ Len(line) > d /\ CharAt(line, d + 1) \in {".", ")"}
           /\ Len(rem) >= 2 /\ EndsWith(rem, "?")
        THEN LStrip(rem) ELSE ""

\* r'^(.+\?)$'
MatchAnyQuestion(line) ==
    IF Len(line) >= 2 /\ EndsWith(line, "?") THEN line ELSE ""

QuestionWords == <<"what", "which", "how", "do you", "would you">>

\* one pass of the body of `for line in lines` of the question extraction
QuestionOfLine(line) ==
    LET m1 == MatchQuestionLabel(line)
        m2 == MatchQNumber(line)
        m3 == MatchNumberedQuestion(line)
        m4 == MatchAnyQuestion(line)
    IN  IF m1 # "" THEN Strip(m1)
        ELSE IF m2 # "" THEN Strip(m2)
        ELSE IF m3 # "" THEN Strip(m3)
        ELSE IF m4 # "" THEN Strip(m4)
        ELSE IF (Contains(line, "?") \/ Len(line) > 20)
                /\ \E i \in 1..Len(QuestionWords) : Contains(Lower(line), QuestionWords[i])
            THEN line
        ELSE ""

\* the loop stops at the first line that yields a question
RECURSIVE ExtractQuestion(_)
ExtractQuestion(lines) ==
    IF lines = <<>> THEN ""
    ELSE IF QuestionOfLine(Head(lines)) # "" THEN QuestionOfLine(Head(lines))
    ELSE ExtractQuestion(Tail(lines))

\* option_patterns, re.IGNORECASE; "" when no pattern matches the line
MatchOption(line) ==
    IF line = "" THEN ""
    ELSE IF LowerChar(Head(line)) \in {"a", "b", "c", "d", "e"}
            /\ Len(line) > 2 /\ CharAt(line, 2) \in ({".", ")", ":"} \cup SpaceSet)
        THEN LStrip(From(line, 2))
    ELSE IF Head(line) \in {"1", "2", "3", "4", "5"}
            /\ Len(line) > 2 /\ CharAt(line, 2) \in {".", ")"}
        THEN LStrip(From(line, 2))
    ELSE IF Head(line) \in {"*", "-"} /\ Len(line) > 1
        THEN LStrip(From(line, 1))
    ELSE ""

\* every line is scanned; option_text is kept when len(option_text) > 1
RECURSIVE ExtractOptions(_)
ExtractOptions(lines) ==
    IF lines = <<>> THEN <<>>
    ELSE LET option_text == Strip(MatchOption(Head(lines)))
         IN  (IF Len(option_text) > 1 THEN <<option_text>> ELSE <<>>)
                \o ExtractOptions(Tail(lines))

IdentStart == LowerSet \cup UpperSet \cup {"_"}
IdentChars == IdentStart \cup DigitSet

\* re.search(label + r'\s*([a-zA-Z_][a-zA-Z0-9_]*)', ai_text, re.IGNORECASE):
\* group(1) of the leftmost match from offset i on, "" when there is none
SearchLabel(ai_text, label, i) ==
    LET After(j) == LStrip(From(ai_text, j + Len(label) - 1))
        hits == {j \in i..(Len(ai_text) - Len(label) + 1) :
                    /\ Lower(SubSeq(ai_text, j, j + Len(label) - 1)) = label
                    /\ After(j) # "" /\ Head(After(j)) \in IdentStart}
    IN  IF hits = {} THEN ""
        ELSE SubSeq(After(Min(hits)), 1, SpanLen(After(Min(hits)), IdentChars))

PreferenceLabels == <<"preference_key:", "preferencekey:", "key:", "category:">>

\* the first of preference_patterns that matches gives the key, lower-cased
RECURSIVE ExtractPreferenceKey(_, _)
ExtractPreferenceKey(ai_text, p) ==
    IF p > Len(PreferenceLabels) THEN None
    ELSE IF SearchLabel(ai_text, PreferenceLabels[p], 1) # ""
        THEN Lower(SearchLabel(ai_text, PreferenceLabels[p], 1))
    ELSE ExtractPreferenceKey(ai_text, p + 1)

\* while len(options) < 4: options.append(f"Option {len(options) + 1}")
RECURSIVE PadOptions(_)
PadOptions(options) ==
    IF Len(options) < 4
    THEN PadOptions(Append(options, "Option " \o ToString(Len(options) + 1)))
    ELSE options

\* options[:k]
Take(seq, k) == SubSeq(seq, 1, IF Len(seq) < k THEN Len(seq) ELSE k)

OtherOption == "Other (please specify)"

\* "exc" is TRUE when the function raises (ValueError)
FlexibleParseResponse(ai_text, question_num) ==
    IF ai_text = "" \/ Len(Strip(ai_text)) < 10
    THEN [exc |-> TRUE, question |-> "", options |-> <<>>,
          preference_key |-> None, is_complete |-> FALSE]
    ELSE
    LET lines == StrippedLines(ai_text)
        question == ExtractQuestion(lines)
        found_key == ExtractPreferenceKey(ai_text, 1)
        preference_key ==
            IF found_key = None /\ question # ""
            THEN GeneratePreferenceKeyFromQuestion(question, question_num)
            ELSE found_key
        first4 == Take(PadOptions(ExtractOptions(lines)), 4)
        options ==
            IF \E i \in 1..Len(first4) : Contains(Lower(first4[i]), "other")
            THEN first4 ELSE Append(first4, OtherOption)
    IN  [exc |-> FALSE, question |-> question, options |-> options,
         preference_key |-> preference_key,
         is_complete |-> FALSE]

(***************************************************************************)
(* The question engine: DynamicConversationEngine                          *)
(* A conversation is a sequence of [question, answer, preference_key];     *)
(* None stands for Python's None.                                          *)
(***************************************************************************)
\* Python truthiness of an Optional[str]
Truthy(x) == x # None /\ x # ""

\* [msg for msg in conversation if msg.get("answer")]
AnsweredQuestions(conversation) ==
    SelectSeq(conversation, LAMBDA msg : Truthy(msg.answer))

\* _extract_used_preference_keys
ExtractUsedPreferenceKeys(conversation_history) ==
    {conversation_history[i].preference_key : i \in
        {j \in 1..Len(conversation_history) :
            /\ Truthy(conversation_history[j].preference_key)
            /\ Truthy(conversation_history[j].answer)}}

PriorityCategories == <<
    "dietary_style", "spice_tolerance", "food_allergies", "regional_cuisines",
    "health_conditions", "family_needs", "cooking_constraints",
    "meal_complexity", "fasting_observances", "general_preference" >>

\* variant: the last uncovered category instead of the first
NextPriority_LastUncovered(used_keys) ==
    LET uncovered_priority == SelectSeq(PriorityCategories, LAMBDA cat : cat \notin used_keys)
    IN  IF uncovered_priority # <<>> THEN uncovered_priority[Len(uncovered_priority)]
        ELSE "general_preference"

\* _build_fully_dynamic_prompt: the category the prompt asks the provider for
NextPriority(used_keys) ==
    LET uncovered_priority == SelectSeq(PriorityCategories, LAMBDA cat : cat \notin used_keys)
    IN  IF uncovered_priority # <<>> THEN uncovered_priority[1] ELSE "general_preference"

MAX_ATTEMPTS == 3

\* A provider call either raises or returns a text.
Raises == [raises |-> TRUE, text |-> ""]
Returns(t) == [raises |-> FALSE, text |-> t]

\* variant: any non-empty text is accepted
UsableResponse_AnyText(r) == ~r.raises /\ r.text # ""

\* if response and response.text and len(response.text.strip()) > 20
UsableResponse(r) == ~r.raises /\ r.text # "" /\ Len(Strip(r.text)) > 20

\* variant: a fourth call is made when three have failed
GenerateWithIntelligentRetry_FourthCall(attempts) ==
    Bind({i \in 1..MAX_ATTEMPTS : UsableResponse(attempts[i])}, LAMBDA usable :
        IF usable = {}
        THEN [exc |-> TRUE, text |-> "", calls |-> MAX_ATTEMPTS + 1]
        ELSE [exc |-> FALSE, text |-> attempts[Min(usable)].text, calls |-> Min(usable)])

\* _generate_with_intelligent_retry: attempts[i] is what call i of the provider
\* does. The first usable response is returned; an exception of the last call
\* is re-raised, and the loop running out raises too.
GenerateWithIntelligentRetry(attempts) ==
    Bind({i \in 1..MAX_ATTEMPTS : UsableResponse(attempts[i])}, LAMBDA usable :
        IF usable = {}
        THEN [exc |-> TRUE, text |-> "", calls |-> MAX_ATTEMPTS]
        ELSE Bind(Min(usable), LAMBDA attempt :
             [exc |-> FALSE, text |-> attempts[attempt].text, calls |-> attempt]))

\* _generate_contextual_options
AnyWord(question_lower, words) == \E w \in words : Contains(question_lower, w)

GenerateContextualOptions(question, question_num) ==
    Bind(Lower(question), LAMBDA question_lower :
        IF AnyWord(question_lower, {"snack", "snacking"})
            THEN <<"Rarely snack", "Healthy snacks", "Whatever available", "Multiple times daily">>
        ELSE IF AnyWord(question_lower, {"cook", "cooking"})
            THEN <<"Love cooking", "Cook when needed", "Quick meals only", "Avoid cooking">>
        ELSE IF AnyWord(question_lower, {"portion", "amount"})
            THEN <<"Small portions", "Medium portions", "Large portions", "Varies by mood">>
        ELSE IF AnyWord(question_lower, {"time", "timing", "when"})
            THEN <<"Very regular", "Somewhat regular", "Flexible timing", "No set schedule">>
        ELSE IF AnyWord(question_lower, {"prefer", "like", "favorite"})
            THEN <<"Strong preferences", "Some preferences", "Open to most", "Very flexible">>
        ELSE <<"Yes, always", "Sometimes", "Rarely", "Never">>)

\* r'^[a-z][a-z0-9_]*$'
\* ($ also matches before a newline that ends the string)
MatchesKeyPattern(key) ==
    /\ key # ""
    /\ Head(key) \in LowerSet
    /\ \/ SpanLen(key, KeyChars) = Len(key)
       \/ /\ SpanLen(key, KeyChars) = Len(key) - 1
          /\ CharAt(key, Len(key)) = "\n"

\* _is_quality_response
IsQualityResponse(response) ==
    /\ response.question # "" /\ Len(Strip(response.question)) >= 10
    /\ Len(response.options) = 5
    /\ Truthy(response.preference_key) /\ MatchesKeyPattern(response.preference_key)
    /\ CountChar(response.question, " ") >= 3

\* creative_questions of _generate_alternative_dynamic_question, in dict order
CreativeQuestions(question_num) == <<
    [key |-> "snacking_style_" \o ToString(question_num),
     question |-> "How do you usually snack?",
     options |-> <<"Healthy snacks only", "Whatever's available", "Sweet treats", "Salty/savory snacks">>],
    [key |-> "cooking_motivation_" \o ToString(question_num),
     question |-> "What motivates your cooking?",
     options |-> <<"Health benefits", "Taste and flavor", "Time saving", "Cost saving">>],
    [key |-> "meal_satisfaction_" \o ToString(question_num),
     question |-> "What makes a meal satisfying?",
     options |-> <<"Large portions", "Rich flavors", "Nutritional value", "Comfort feeling">>],
    [key |-> "food_exploration_" \o ToString(question_num),
     question |-> "How adventurous are you with food?",
     options |-> <<"Love trying new things", "Sometimes try new", "Stick to favorites", "Very particular">>],
    [key |-> "eating_environment_" \o ToString(question_num),
     question |-> "Where do you prefer eating?",
     options |-> <<"At dining table", "While watching TV", "In kitchen", "Anywhere convenient">>] >>

\* _generate_alternative_dynamic_question: the first creative question whose key
\* is unused, else the "ultimate fallback"
GenerateAlternativeDynamicQuestion(conversation_history, used_keys, question_num) ==
    Bind(CreativeQuestions(question_num), LAMBDA creative_questions :
    Bind({i \in 1..Len(creative_questions) : creative_questions[i].key \notin used_keys},
         LAMBDA unused :
        IF unused # {}
        THEN Bind(creative_questions[Min(unused)], LAMBDA data :
             [question |-> data.question,
              options |-> Append(data.options, OtherOption),
              preference_key |-> data.key,
              is_complete |-> FALSE])
        ELSE [question |-> "What other food preferences should we know?",
              options |-> <<"Texture preferences", "Temperature preferences",
                            "Flavor combinations", "Eating schedule", OtherOption>>,
              preference_key |-> "custom_preference_" \o ToString(question_num)
                                    \o "_" \o ToString(Cardinality(used_keys)),
              is_complete |-> FALSE]))

\* emergency_questions of _emergency_dynamic_generation
EmergencyQuestions(unique_suffix) == <<
    [question |-> "What's most important in your daily meals?",
     options |-> <<"Taste and flavor", "Health benefits", "Quick preparation", "Cost effectiveness">>,
     key |-> "meal_priority_" \o unique_suffix],
    [question |-> "How flexible are your eating times?",
     options |-> <<"Very regular schedule", "Somewhat flexible", "Quite flexible", "No fixed times">>,
     key |-> "eating_flexibility_" \o unique_suffix],
    [question |-> "What cooking style suits you?",
     options |-> <<"Simple and quick", "Traditional methods", "Modern techniques", "Whatever works">>,
     key |-> "cooking_approach_" \o unique_suffix] >>

\* variant: the emergency question without the "Other" option
EmergencyDynamicGeneration_FourOptions(question_num, t) ==
    Bind(EmergencyQuestions(LastChars(ToString(t), 4))[(question_num % 3) + 1],
         LAMBDA selected :
        [question |-> selected.question,
         options |-> selected.options,
         preference_key |-> selected.key,
         is_complete |-> FALSE])

\* _emergency_dynamic_generation; t is int(time.time())
EmergencyDynamicGeneration(question_num, t) ==
    Bind(LastChars(ToString(t), 4), LAMBDA unique_suffix :
    Bind(EmergencyQuestions(unique_suffix), LAMBDA emergency_questions :
    Bind(emergency_questions[(question_num % Len(emergency_questions)) + 1],
         LAMBDA selected :
        [question |-> selected.question,
         options |-> Append(selected.options, OtherOption),
         preference_key |-> selected.key,
         is_complete |-> FALSE])))

\* str.title() of an ASCII string: a letter is upper-cased when no letter precedes it
RECURSIVE TitleRange(_, _, _)
TitleRange(s, lo, hi) ==
    IF lo > hi THEN ""
    ELSE IF lo = hi
        THEN (IF lo > 1 /\ CharAt(s, lo - 1) \in (LowerSet \cup UpperSet)
              THEN LowerChar(CharAt(s, lo)) ELSE UpperChar(CharAt(s, lo)))
    ELSE TitleRange(s, lo, (lo + hi) \div 2) \o TitleRange(s, (lo + hi) \div 2 + 1, hi)

Title(s) == TitleRange(s, 1, Len(s))

\* s.replace("_", " ")
RECURSIVE UnderscoresToSpaces(_)
UnderscoresToSpaces(s) ==
    IF s = "" THEN ""
    ELSE IF Len(s) = 1 THEN (IF s = "_" THEN " " ELSE s)
    ELSE UnderscoresToSpaces(SubSeq(s, 1, Len(s) \div 2))
            \o UnderscoresToSpaces(SubSeq(s, Len(s) \div 2 + 1, Len(s)))

\* summary_parts of _generate_completion_response: one line for each of the
\* first 3 answered turns that has a key
SummaryParts(conversation) ==
    LET first3 == Take(AnsweredQuestions(conversation), 3)
        keyed == SelectSeq(first3, LAMBDA msg : Truthy(msg.preference_key) /\ Truthy(msg.answer))
    IN  [i \in 1..Len(keyed) |->
            "* " \o Title(UnderscoresToSpaces(keyed[i].preference_key))
                 \o ": " \o keyed[i].answer]

\* "\n".join(parts)
RECURSIVE JoinLines(_)
JoinLines(parts) ==
    IF parts = <<>> THEN ""
    ELSE IF Len(parts) = 1 THEN parts[1]
    ELSE parts[1] \o "\n" \o JoinLines(Tail(parts))

\* _generate_completion_response (the bullet character is written "*")
GenerateCompletionResponse(conversation) ==
    LET summary_parts == SummaryParts(conversation)
        summary_text == IF summary_parts # <<>> THEN JoinLines(summary_parts)
                        ELSE "* Your personalized preferences recorded"
    IN  [question |->
            "Perfect! I have everything needed to create your personalized meal plans.\n\n"
            \o "Your Key Preferences:\n" \o summary_text \o "\n\nBased on your "
            \o ToString(Len(AnsweredQuestions(conversation)))
            \o " detailed responses, we'll create customized meal recommendations that match your taste, dietary needs, and lifestyle perfectly!\n\n"
            \o "Ready to discover your ideal meal plans!",
         options |-> <<>>,
         preference_key |-> None,
         is_complete |-> TRUE]

(***************************************************************************)
(* The text-generation provider (genai.GenerativeModel.generate_content).  *)
(* It is outside the repository: a call raises or returns any text. The    *)
(* texts below are the ones the model draws from.                          *)
(***************************************************************************)
\* the example question and options the prompt gives for each category
PromptExamples == <<
    [key |-> "dietary_style", question |-> "What type of food do you usually eat?",
     options |-> <<"Vegetarian only", "Non-vegetarian", "Vegan", "Jain food">>],
    [key |-> "spice_tolerance", question |-> "How spicy do you like your food?",
     options |-> <<"No spice at all", "Mild spice", "Medium spicy", "Very spicy">>],
    [key |-> "food_allergies", question |-> "Are there any foods you cannot eat?",
     options |-> <<"No restrictions", "Lactose intolerant", "Gluten-free", "Nut allergies">>],
    [key |-> "regional_cuisines", question |-> "Which regional cuisine do you prefer most?",
     options |-> <<"North Indian", "South Indian", "Gujarati", "Bengali">>],
    [key |-> "health_conditions", question |-> "Do you have any health conditions affecting food?",
     options |-> <<"None", "Diabetes", "High blood pressure", "Thyroid">>],
    [key |-> "family_needs", question |-> "Do you need to consider family preferences?",
     options |-> <<"Just for me", "Sometimes", "Always needed", "Very important">>],
    [key |-> "cooking_constraints", question |-> "How much time do you have for cooking?",
     options |-> <<"Plenty of time", "30 minutes max", "Quick meals only", "Very little time">>],
    [key |-> "meal_complexity", question |-> "What cooking style do you prefer?",
     options |-> <<"Simple daily food", "Sometimes elaborate", "Love detailed cooking", "Depends on occasion">>],
    [key |-> "fasting_observances", question |-> "Do you follow any fasting practices?",
     options |-> <<"No fasting", "Weekly vrat", "Navratri", "Ekadashi">>],
    [key |-> "general_preference", question |-> "Any other food preferences to consider?",
     options |-> <<"Low oil", "High protein", "Traditional style", "Modern fusion">>] >>

\* a text in the RESPONSE FORMAT of the prompt, for the category the prompt names
FormattedText(question, options, key) ==
    "Question: " \o question \o "\n\nA) " \o options[1] \o "  \nB) " \o options[2]
        \o "  \nC) " \o options[3] \o "  \nD) " \o options[4]
        \o "  \nE) Other (please specify)\n\nPreference_Key: " \o key

\* the text for each category, built once
NominalTexts ==
    [key \in {PromptExamples[i].key : i \in 1..Len(PromptExamples)} |->
        LET e == PromptExamples[CHOOSE i \in 1..Len(PromptExamples) :
                                    PromptExamples[i].key = key]
        IN  FormattedText(e.question, e.options, e.key)]

NominalText(next_priority) == NominalTexts[next_priority]

\* the provider repeats the first category whatever the prompt asks for
ReusedKeyText == NominalText("dietary_style")

\* the provider declares the interview over
CompletionClaimText ==
    "Onboarding complete! I have everything I need.\nis_complete: true"

\* a key that does not start with a letter
InvalidKeyText ==
    FormattedText("Which kitchen equipment do you own?",
                  <<"Gas stove", "Microwave", "Oven", "Air fryer">>, "_kitchen")

\* a question of fewer than four words
FewWordsText ==
    FormattedText("Veg or non-veg?", <<"Veg", "Non-veg", "Both", "Depends">>, "veg_choice")

\* no key label, and a question that names no concept of the key table
NoKeyText ==
    "Q: Are you a vegetarian or a vegan person?\n- Vegetarian\n- Vegan\n- Neither\n- Not sure"

EmptyText == ""
ShortText == "Sure, one moment."
\* a text of fewer than 10 characters
TinyText == "Yes."

\* a sentence that ends in "?" before the line with the "Question:" label
LabelAfterQuestionText ==
    "Shall we talk about breakfast?\nQuestion: What do you eat for breakfast?\n"
        \o "A) Idli\nB) Poha\nC) Paratha\nD) Eggs\nPreference_Key: breakfast_choice"

\* three options, and the "Other" option as the fourth list item
OtherSuppliedText ==
    "Question: Which grain do you eat most often?\n"
        \o "A) Rice\nB) Wheat\nC) Millets\nD) Other (please specify)\n"
        \o "Preference_Key: staple_grain"

\* two options only
TwoOptionsText ==
    "Question: Do you eat food cooked outside home?\n1. Yes\n2. No\n"
        \o "Preference_Key: outside_food"

\* every text the provider returns in this model
ProviderTexts ==
    {NominalTexts[k] : k \in DOMAIN NominalTexts}
    \cup {CompletionClaimText, InvalidKeyText, FewWordsText, NoKeyText, EmptyText, ShortText,
          TinyText, LabelAfterQuestionText, OtherSuppliedText, TwoOptionsText}

\* What the provider does on the (up to) three calls of one generation, by name.
\* "nominal" answers the prompt as asked on the first call.
ScriptNames == {
    "nominal", "reused_key", "completion_claim", "invalid_key", "few_words", "no_key",
    "raise_then_nominal", "empty_then_nominal", "short_then_nominal",
    "empty_raise_then_claim",
    "all_raise", "all_empty", "all_short", "empty_short_raise"}

ScriptAttempts(script, next_priority) ==
    CASE script = "nominal" -> <<Returns(NominalText(next_priority)), Raises, Raises>>
      [] script = "reused_key" -> <<Returns(ReusedKeyText), Raises, Raises>>
      [] script = "completion_claim" -> <<Returns(CompletionClaimText), Raises, Raises>>
      [] script = "invalid_key" -> <<Returns(InvalidKeyText), Raises, Raises>>
      [] script = "few_words" -> <<Returns(FewWordsText), Raises, Raises>>
      [] script = "no_key" -> <<Returns(NoKeyText), Raises, Raises>>
      [] script = "raise_then_nominal" ->
            <<Raises, Returns(NominalText(next_priority)), Raises>>
      [] script = "empty_then_nominal" ->
            <<Returns(EmptyText), Returns(NominalText(next_priority)), Raises>>
      [] script = "short_then_nominal" ->
            <<Returns(ShortText), Returns(NominalText(next_priority)), Raises>>
      [] script = "empty_raise_then_claim" ->
            <<Returns(EmptyText), Raises, Returns(CompletionClaimText)>>
      [] script = "all_raise" -> <<Raises, Raises, Raises>>
      [] script = "all_empty" -> <<Returns(EmptyText), Returns(EmptyText), Returns(EmptyText)>>
      [] script = "all_short" -> <<Returns(ShortText), Returns(ShortText), Returns(ShortText)>>
      [] script = "empty_short_raise" -> <<Returns(EmptyText), Returns(ShortText), Raises>>

(***************************************************************************)
(* generate_next_question                                                  *)
(***************************************************************************)
ENGINE_TOTAL_QUESTIONS == 10

\* _flexible_parse_response and _generate_preference_key_from_question are pure:
\* their values on the provider's texts are computed once and looked up.
ParseTable ==
    [ai_text \in ProviderTexts |->
        [question_num \in 0..ENGINE_TOTAL_QUESTIONS |->
            FlexibleParseResponse(ai_text, question_num)]]

ParseResponse(ai_text, question_num) ==
    IF ai_text \in DOMAIN ParseTable /\ question_num \in 0..ENGINE_TOTAL_QUESTIONS
    THEN ParseTable[ai_text][question_num]
    ELSE FlexibleParseResponse(ai_text, question_num)

\* the question _enhance_fully_dynamic_response puts in place of a short one
DefaultQuestion(question_num) ==
    "What's your preference for meal planning? (Question "
        \o ToString(question_num + 1) \o ")"

\* the questions a key is generated from: the parsed ones and the default ones
KnownQuestions ==
    {Strip(ParseTable[ai_text][question_num].question) :
        ai_text \in ProviderTexts, question_num \in 0..ENGINE_TOTAL_QUESTIONS}
    \cup {DefaultQuestion(question_num) : question_num \in 0..ENGINE_TOTAL_QUESTIONS}

KeyTable ==
    [question \in KnownQuestions |->
        [question_num \in 0..ENGINE_TOTAL_QUESTIONS |->
            GeneratePreferenceKeyFromQuestion(question, question_num)]]

PreferenceKeyFromQuestion(question, question_num) ==
    IF question \in DOMAIN KeyTable /\ question_num \in 0..ENGINE_TOTAL_QUESTIONS
    THEN KeyTable[question][question_num]
    ELSE GeneratePreferenceKeyFromQuestion(question, question_num)

\* _generate_unique_preference_key
GenerateUniquePreferenceKey(used_keys, question, question_num, t) ==
    Bind(PreferenceKeyFromQuestion(question, question_num), LAMBDA base_key :
    Bind({i \in 1..9 : (base_key \o "_" \o ToString(i)) \notin used_keys}, LAMBDA free :
        IF base_key \notin used_keys THEN base_key
        ELSE IF free # {} THEN base_key \o "_" \o ToString(Min(free))
        ELSE "preference_" \o LastChars(ToString(t), 3)))

\* _enhance_fully_dynamic_response
EnhanceFullyDynamicResponse(parsed_response, used_keys, question_num, t) ==
    Bind(Strip(parsed_response.question), LAMBDA stripped :
    Bind(IF stripped = "" \/ Len(stripped) < 10
         THEN DefaultQuestion(question_num)
         ELSE stripped, LAMBDA question :
    Bind(IF Len(parsed_response.options) < 4
         THEN GenerateContextualOptions(question, question_num)
         ELSE parsed_response.options, LAMBDA options :
    Bind(IF ~Truthy(parsed_response.preference_key)
            \/ parsed_response.preference_key \in used_keys
         THEN GenerateUniquePreferenceKey(used_keys, question, question_num, t)
         ELSE parsed_response.preference_key, LAMBDA preference_key :
        [question |-> question,
         options |-> Append(Take(options, 4), OtherOption),
         preference_key |-> preference_key,
         is_complete |-> FALSE]))))

\* generate_next_question. attempts is what the provider does on its calls, t the
\* clock. The result carries, beside the returned dict, how it was produced:
\* calls (provider calls made) and tier ("llm", "alternative", "emergency",
\* "completion").
GenerateNextQuestion(conversation_history, attempts, t) ==
    Bind(Len(AnsweredQuestions(conversation_history)), LAMBDA total_answered :
    Bind(ExtractUsedPreferenceKeys(conversation_history), LAMBDA used_preference_keys :
    Bind(GenerateWithIntelligentRetry(attempts), LAMBDA response :
    Bind(ParseResponse(response.text, total_answered), LAMBDA parsed_response :
    Bind(EnhanceFullyDynamicResponse(
             parsed_response, used_preference_keys, total_answered, t),
         LAMBDA final_response :
    Bind(GenerateAlternativeDynamicQuestion(
             conversation_history, used_preference_keys, total_answered),
         LAMBDA alternative_response :
        IF total_answered >= ENGINE_TOTAL_QUESTIONS
        THEN [dict |-> GenerateCompletionResponse(conversation_history),
              calls |-> 0, tier |-> "completion"]
        ELSE IF response.exc \/ parsed_response.exc
        THEN \* except Exception: return self._emergency_dynamic_generation(len(conversation_history))
             [dict |-> EmergencyDynamicGeneration(Len(conversation_history), t),
              calls |-> response.calls, tier |-> "emergency"]
        ELSE IF ~IsQualityResponse(final_response) /\ IsQualityResponse(alternative_response)
        THEN [dict |-> alternative_response, calls |-> response.calls, tier |-> "alternative"]
        ELSE [dict |-> final_response, calls |-> response.calls, tier |-> "llm"]))))))

(***************************************************************************)
(* The endpoints of onboardings.py                                         *)
(***************************************************************************)
TOTAL_QUESTIONS_REQUIRED == 9

\* model bounds
MaxOdd == 2
MaxTicks == 1
ClockStarts == {1793700000}

\* variant: every row is counted, answered or not
CalculateProgress_CountingAllRows(conversation, total_questions) ==
    Bind(IF total_questions <= 0 THEN 10 ELSE total_questions, LAMBDA total :
    Bind((Len(conversation) * 100) \div total, LAMBDA progress :
        IF progress > 100 THEN 100 ELSE IF progress < 0 THEN 0 ELSE progress))

\* calculate_progress: int((answered_count / total_questions) * 100), clamped
CalculateProgress(conversation, total_questions) ==
    Bind(IF total_questions <= 0 THEN 10 ELSE total_questions, LAMBDA total :
    Bind((Len(AnsweredQuestions(conversation)) * 100) \div total, LAMBDA progress :
        IF progress > 100 THEN 100 ELSE IF progress < 0 THEN 0 ELSE progress))

\* an OnboardingResponse, with how the question was produced (calls, tier)
OnboardingResponse(op, current_message, options, progress, complete, preference_key, calls, tier) ==
    [op |-> op, status |-> 200, current_message |-> current_message,
     options |-> options, progress |-> progress, is_complete |-> complete,
     preference_key |-> preference_key, calls |-> calls, tier |-> tier]

\* raise HTTPException(status_code=status, detail=detail)
HTTPError(op, status, detail) ==
    [op |-> op, status |-> status, current_message |-> detail,
     options |-> <<>>, progress |-> 0, is_complete |-> FALSE,
     preference_key |-> None, calls |-> 0, tier |-> "none"]

NoResponse == HTTPError("none", 0, "")

\* OnboardingRequests(questions=..., answer=None, preference_key=...)
NewRequest(ai_response) ==
    [question |-> ai_response.question, answer |-> None,
     preference_key |-> ai_response.preference_key]

\* variant: no row is ever found pending
PendingRows_None(rows) == {}

\* rows with answer IS NULL
PendingRows(rows) == {i \in 1..Len(rows) : rows[i].answer = None}

\* variant: saving the answer clears the answers of the other rows
AnswerRow_ClearingOthers(rows, last_question, content) ==
    [i \in 1..Len(rows) |->
        [rows[i] EXCEPT !.answer = IF i = last_question THEN content ELSE None]]

\* last_question.answer = user_input.content; db.commit()
AnswerRow(rows, last_question, content) ==
    [rows EXCEPT ![last_question].answer = content]

\* off-script events are counted against MaxOdd
ScriptCost(script) == IF script = "nominal" THEN 0 ELSE 1

PlainAnswers == {"Vegetarian"}
OddAnswers == {"", "Other (please specify)"}

Spend(cost) == odd + cost <= MaxOdd /\ odd' = odd + cost

\* POST /onboarding/start
\* The provider is called only when a question is generated, so the other paths
\* are taken once, under the script "nominal".
Start(script) ==
    /\ UNCHANGED <<now, sessions, inflight>>
    /\ Bind(turns, LAMBDA conversation :
       Bind(Len(AnsweredQuestions(conversation)), LAMBDA answered_count :
           IF answered_count >= TOTAL_QUESTIONS_REQUIRED
           THEN /\ script = "nominal"
                /\ is_complete' = TRUE
                /\ resp' = OnboardingResponse("start",
                        "Onboarding complete! You've answered all 10 questions. Please login to proceed.",
                        <<>>, 100, TRUE, None, 0, "none")
                /\ UNCHANGED <<turns, odd>>
           ELSE /\ Spend(ScriptCost(script)
                         + (IF PendingRows(turns) # {} \/ is_complete THEN 1 ELSE 0))
                /\ Bind(GenerateNextQuestion(conversation,
                            ScriptAttempts(script,
                                NextPriority(ExtractUsedPreferenceKeys(conversation))),
                            now), LAMBDA ai :
                   Bind(ai.dict, LAMBDA ai_response :
                   IF ai_response.is_complete /\ answered_count >= TOTAL_QUESTIONS_REQUIRED
                   THEN /\ is_complete' = TRUE
                        /\ resp' = OnboardingResponse("start",
                                "Onboarding complete! Please login to proceed.",
                                <<>>, 100, TRUE, None, ai.calls, ai.tier)
                        /\ UNCHANGED turns
                   ELSE /\ turns' = Append(turns, NewRequest(ai_response))
                        /\ resp' = OnboardingResponse("start", ai_response.question,
                                ai_response.options,
                                CalculateProgress(conversation, TOTAL_QUESTIONS_REQUIRED),
                                FALSE, ai_response.preference_key, ai.calls, ai.tier)
                        /\ UNCHANGED is_complete))))

\* respond from "last_question.answer = user_input.content" on: the answer is
\* saved on the newest pending row and the next question is generated. An odd
\* answer and an off-script provider are counted first; the path that completes
\* without generating is taken once, under the script "nominal".
SaveAnswerAndContinue(content, script) ==
    /\ Spend((IF content \in PlainAnswers THEN 0 ELSE 1) + ScriptCost(script))
    /\ UNCHANGED <<now, sessions, inflight>>
    /\ Bind(Max(PendingRows(turns)), LAMBDA last_question :
       Bind(AnswerRow(turns, last_question, content), LAMBDA answered_rows :
       \* the rows as read before the answer was saved, then the answered row
       Bind(Append(turns, answered_rows[last_question]), LAMBDA conversation :
       Bind(Len(AnsweredQuestions(conversation)), LAMBDA answered_count :
           IF answered_count >= TOTAL_QUESTIONS_REQUIRED
           THEN /\ script = "nominal"
                /\ turns' = answered_rows
                /\ is_complete' = TRUE
                /\ resp' = OnboardingResponse("respond",
                        "Perfect! Onboarding complete after " \o ToString(answered_count)
                            \o " questions. Please login to proceed.",
                        <<>>, 100, TRUE, None, 0, "none")
           ELSE Bind(GenerateNextQuestion(conversation,
                         ScriptAttempts(script,
                             NextPriority(ExtractUsedPreferenceKeys(conversation))),
                         now), LAMBDA ai :
                Bind(ai.dict, LAMBDA ai_response :
                   IF ai_response.is_complete \/ answered_count >= TOTAL_QUESTIONS_REQUIRED
                   THEN /\ turns' = answered_rows
                        /\ is_complete' = TRUE
                        /\ resp' = OnboardingResponse("respond",
                                "Onboarding complete! You've answered " \o ToString(answered_count)
                                    \o " questions. Please login to proceed.",
                                <<>>, 100, TRUE, None, ai.calls, ai.tier)
                   ELSE /\ turns' = Append(answered_rows, NewRequest(ai_response))
                        /\ resp' = OnboardingResponse("respond", ai_response.question,
                                ai_response.options,
                                CalculateProgress(conversation, TOTAL_QUESTIONS_REQUIRED),
                                FALSE, ai_response.preference_key, ai.calls, ai.tier)
                        /\ UNCHANGED is_complete))))))

\* variant: respond without the check of existing_session.is_complete
Respond_IgnoringComplete(content, script) ==
    IF PendingRows(turns) = {}
    THEN /\ content \in PlainAnswers
         /\ script = "nominal"
         /\ resp' = HTTPError("respond", 400,
                        "No pending question found. Onboarding may be complete.")
         /\ UNCHANGED <<turns, is_complete, now, odd, sessions, inflight>>
    ELSE SaveAnswerAndContinue(content, script)

\* POST /onboarding/respond
Respond(content, script) ==
    IF is_complete
    THEN /\ content \in PlainAnswers
         /\ script = "nominal"
         /\ resp' = HTTPError("respond", 400,
                        "Onboarding already complete! Please login to proceed.")
         /\ UNCHANGED <<turns, is_complete, now, odd, sessions, inflight>>
    ELSE IF PendingRows(turns) = {}
    THEN /\ content \in PlainAnswers
         /\ script = "nominal"
         /\ resp' = HTTPError("respond", 400,
                        "No pending question found. Onboarding may be complete.")
         /\ UNCHANGED <<turns, is_complete, now, odd, sessions, inflight>>
    ELSE SaveAnswerAndContinue(content, script)

MIN_MEANINGFUL_ANSWERS == 5

\* POST /onboarding/set-preferences
SetPreferences ==
    LET conversation == AnsweredQuestions(turns)
        meaningful_answers == SelectSeq(conversation,
            LAMBDA r : Truthy(r.answer) /\ ~Contains(Lower(r.answer), "please specify"))
    IN  /\ IF turns = <<>>
           THEN /\ resp' = HTTPError("set_preferences", 404, "No conversation history found.")
                /\ UNCHANGED is_complete
           ELSE IF Len(meaningful_answers) < MIN_MEANINGFUL_ANSWERS
           THEN /\ resp' = HTTPError("set_preferences", 400,
                                "Please answer at least 5 questions to save preferences.")
                /\ UNCHANGED is_complete
           ELSE /\ is_complete' = TRUE
                /\ resp' = OnboardingResponse("set_preferences",
                                "Preferences saved successfully", <<>>, 0, FALSE, None, 0, "none")
        /\ UNCHANGED <<turns, now, odd, sessions, inflight>>

\* a second of wall-clock time passes
Tick ==
    /\ \E t0 \in ClockStarts : now < t0 + MaxTicks
    /\ now' = now + 1
    /\ UNCHANGED <<turns, is_complete, resp, odd, sessions, inflight>>

\* one session, whose rows are turns and whose flag is is_complete; no
\* respond call is in flight
Init ==
    /\ turns = <<>>
    /\ is_complete = FALSE
    /\ now \in ClockStarts
    /\ resp = NoResponse
    /\ odd = 0
    /\ sessions = {}
    /\ inflight = <<>>

Next ==
    \/ \E script \in ScriptNames : Start(script)
    \/ \E content \in PlainAnswers \cup OddAnswers, script \in ScriptNames :
            Respond(content, script)
    \/ SetPreferences
    \/ Tick

Spec == Init /\ [][Next]_vars

\* The client opens the session, and answers a pending question of a session
\* that is not complete with a non-empty answer.
CanBeginSession == turns = <<>>

BeginSession == CanBeginSession /\ \E script \in ScriptNames : Start(script)

CanAnswerPending == ~is_complete /\ PendingRows(turns) # {}

AnswerPending ==
    /\ CanAnswerPending
    /\ \E content \in PlainAnswers, script \in ScriptNames : Respond(content, script)

\* Weak fairness of BeginSession and of AnswerPending, that is WF_vars(BeginSession)
\* and WF_vars(AnswerPending), written out: CanBeginSession and CanAnswerPending
\* are the states where a step of the action is possible (the script "nominal"
\* and a plain answer cost nothing, and the step appends to or changes turns).
FairSpec ==
    /\ Spec
    /\ ([]<>~CanBeginSession \/ []<><<BeginSession>>_vars)
    /\ ([]<>~CanAnswerPending \/ []<><<AnswerPending>>_vars)

(***************************************************************************)
(* PreferenceExtractor                                                     *)
(***************************************************************************)
\* re.match(r'^[A-E][:.]', answer_cleaned, re.IGNORECASE)
MatchLetterPrefix(s) ==
    /\ Len(s) >= 2
    /\ CharAt(s, 1) \in {"A", "B", "C", "D", "E", "a", "b", "c", "d", "e"}
    /\ CharAt(s, 2) \in {":", "."}

\* re.match(r'^[1-5][.)]', answer_cleaned)
MatchDigitPrefix(s) ==
    /\ Len(s) >= 2
    /\ CharAt(s, 1) \in {"1", "2", "3", "4", "5"}
    /\ CharAt(s, 2) \in {".", ")"}

\* PreferenceExtractor._normalize_answer
NormalizeAnswer(answer) ==
    IF answer = "" THEN "Not specified"
    ELSE Bind(Strip(answer), LAMBDA stripped :
         Bind(IF MatchLetterPrefix(stripped) \/ MatchDigitPrefix(stripped)
              THEN Strip(SubSeq(stripped, 3, Len(stripped)))
              ELSE stripped, LAMBDA answer_cleaned :
             IF answer_cleaned # "" THEN Title(answer_cleaned) ELSE "Not specified"))

\* preferences of extract_preferences before the loop
DefaultPreferences ==
    [dietary_style |-> "Any", spice_tolerance |-> "Medium", food_allergies |-> "None",
     regional_cuisines |-> "Any", health_conditions |-> "None",
     family_needs |-> "Not specified", cooking_constraints |-> "Flexible",
     meal_complexity |-> "Simple", fasting_observances |-> "None",
     general_preference |-> "No specific preference"]

\* variant: an answer of blanks is stored too
StoredItems_BlankAnswersToo(conversation) ==
    {i \in 1..Len(conversation) :
        /\ Truthy(conversation[i].preference_key)
        /\ Truthy(conversation[i].answer)}

\* the items extract_preferences stores: a key and a non-blank answer (the
\* strip of a None answer raises, and the item is skipped)
StoredItems(conversation) ==
    {i \in 1..Len(conversation) :
        /\ Truthy(conversation[i].preference_key)
        /\ conversation[i].answer # None
        /\ Strip(conversation[i].answer) # ""}

\* the dict extract_preferences builds: the item stored last for a key wins
ExtractedPreferences(conversation) ==
    Bind(StoredItems(conversation), LAMBDA stored :
        [k \in DOMAIN DefaultPreferences \cup {conversation[i].preference_key : i \in stored} |->
            Bind({i \in stored : conversation[i].preference_key = k}, LAMBDA items :
                IF items = {} THEN DefaultPreferences[k]
                ELSE NormalizeAnswer(Strip(conversation[Max(items)].answer)))])

\* variant: the normalized answer is written back to the item
ExtractPreferences_StoringNormalized(conversation) ==
    [preferences |-> ExtractedPreferences(conversation),
     conversation |->
        [i \in 1..Len(conversation) |->
            IF i \in StoredItems(conversation)
            THEN [conversation[i] EXCEPT
                    !.answer = NormalizeAnswer(Strip(conversation[i].answer))]
            ELSE conversation[i]]]

\* PreferenceExtractor.extract_preferences: the dict returned, and the list the
\* caller passed as the call leaves it (the items are only read)
ExtractPreferences(conversation) ==
    [preferences |-> ExtractedPreferences(conversation),
     conversation |-> conversation]

(***************************************************************************)
(* The functions of the engine and of the extractor, called on their own.  *)
(* turns is the conversation passed, now the clock, resp the call made and *)
(* its result.                                                             *)
(***************************************************************************)
\* an answered row for a priority category
PriorityRow(i) ==
    [question |-> PromptExamples[i].question, answer |-> "Vegetarian",
     preference_key |-> PriorityCategories[i]]

\* for each set of priority categories, the log that covers exactly that set
PriorityLogs ==
    {SelectSeq([i \in 1..Len(PriorityCategories) |-> PriorityRow(i)],
               LAMBDA row : row.preference_key \in covered) :
        covered \in SUBSET {PriorityCategories[i] : i \in 1..Len(PriorityCategories)}}

\* the question whose key the logs below use up
KeyQuestion == PromptExamples[1].question

\* the keys _generate_unique_preference_key tries for KeyQuestion, in order,
\* then its fallback key at the first clock value
KeyChain ==
    Bind(PreferenceKeyFromQuestion(KeyQuestion, 0), LAMBDA base_key :
        <<base_key>> \o [i \in 1..9 |-> base_key \o "_" \o ToString(i)])

FallbackKeyRow ==
    [question |-> "Anything else?", answer |-> "Vegetarian",
     preference_key |-> "preference_"
        \o LastChars(ToString(CHOOSE t0 \in ClockStarts : TRUE), 3)]

\* logs whose answered keys are a prefix of KeyChain, with or without the
\* fallback key
KeyLogs ==
    {[i \in 1..k |-> [question |-> KeyQuestion, answer |-> "Vegetarian",
                      preference_key |-> KeyChain[i]]] : k \in 0..Len(KeyChain)}
    \cup {Append([i \in 1..k |-> [question |-> KeyQuestion, answer |-> "Vegetarian",
                                  preference_key |-> KeyChain[i]]], FallbackKeyRow) :
            k \in 0..Len(KeyChain)}

\* rows with answers the extractor normalizes, skips or keeps
MaxAnswerRows == 2
AnswerSamples == {"a: rice", "A:b. c", "2) mild", "", "  ", " vegan ", None}
AnswerRows ==
    {[question |-> "What do you eat?", answer |-> a, preference_key |-> k] :
        a \in AnswerSamples, k \in {"dietary_style", "snack_preference"}}
    \cup {[question |-> "What do you eat?", answer |-> "rice", preference_key |-> None]}

AnswerLogs == UNION {[1..n -> AnswerRows] : n \in 1..MaxAnswerRows}

EngineConversations == PriorityLogs \cup KeyLogs \cup AnswerLogs

\* what one call of the provider does
AttemptOutcomes(next_priority) ==
    {Raises, Returns(EmptyText), Returns(ShortText), Returns(TinyText),
     Returns(NominalText(next_priority))}

\* each behaviour makes one call, on the conversation it starts with
CallGenerateNextQuestion ==
    /\ resp = NoResponse
    /\ \E attempts \in [1..MAX_ATTEMPTS ->
                AttemptOutcomes(NextPriority(ExtractUsedPreferenceKeys(turns)))] :
            resp' = [op |-> "generate_next_question", attempts |-> attempts,
                     ai |-> GenerateNextQuestion(turns, attempts, now)]
    /\ UNCHANGED <<turns, is_complete, now, odd, sessions, inflight>>

CallGenerateUniquePreferenceKey ==
    /\ resp = NoResponse
    /\ resp' = [op |-> "generate_unique_preference_key", question |-> KeyQuestion,
                key |-> GenerateUniquePreferenceKey(
                            ExtractUsedPreferenceKeys(turns), KeyQuestion,
                            Len(AnsweredQuestions(turns)), now)]
    /\ UNCHANGED <<turns, is_complete, now, odd, sessions, inflight>>

CallNextPriority ==
    /\ resp = NoResponse
    /\ resp' = [op |-> "next_priority",
                category |-> NextPriority(ExtractUsedPreferenceKeys(turns))]
    /\ UNCHANGED <<turns, is_complete, now, odd, sessions, inflight>>

\* extract_preferences called twice on the same list
CallExtractPreferencesTwice ==
    /\ resp = NoResponse
    /\ Bind(ExtractPreferences(turns), LAMBDA first :
       Bind(ExtractPreferences(first.conversation), LAMBDA second :
           /\ turns' = second.conversation
           /\ resp' = [op |-> "extract_preferences", first |-> first.preferences,
                       second |-> second.preferences]))
    /\ UNCHANGED <<is_complete, now, odd, sessions, inflight>>

\* candidates for the quality predicate: questions that are empty, short,
\* of three and of five words, padded with blanks; 4 or 5 options; keys that
\* match the pattern or not
QualityCandidates ==
    [question : {"", "Eat meat?", "Vegetarian or vegan?", "What do you eat daily?",
                 "  Veg or not?  ", "Vegetarian    "},
     options : {<<"Yes, always", "Sometimes", "Rarely", "Never">>,
                <<"Yes, always", "Sometimes", "Rarely", "Never", OtherOption>>},
     preference_key : {None, "", "dietary_style", "_kitchen", "Diet", "diet2", "diet\n"},
     is_complete : {FALSE}]

CallIsQualityResponse ==
    /\ resp = NoResponse
    /\ \E response \in QualityCandidates :
            resp' = [op |-> "is_quality_response", response |-> response,
                     result |-> IsQualityResponse(response)]
    /\ UNCHANGED <<turns, is_complete, now, odd, sessions, inflight>>

\* generate_next_question from the parsing of the text on: the parsed response
\* and, unless the parser raises, the candidate made of it
CallParseAndEnhance ==
    /\ resp = NoResponse
    /\ \E ai_text \in ProviderTexts :
        Bind(Len(AnsweredQuestions(turns)), LAMBDA total_answered :
        Bind(ParseResponse(ai_text, total_answered), LAMBDA parsed_response :
            resp' = [op |-> "parse_and_enhance", ai_text |-> ai_text,
                     parsed |-> parsed_response,
                     final |-> IF parsed_response.exc THEN parsed_response
                               ELSE EnhanceFullyDynamicResponse(
                                        parsed_response,
                                        ExtractUsedPreferenceKeys(turns),
                                        total_answered, now)]))
    /\ UNCHANGED <<turns, is_complete, now, odd, sessions, inflight>>

EngineInit ==
    /\ turns \in EngineConversations
    /\ is_complete = FALSE
    /\ now \in ClockStarts
    /\ resp = NoResponse
    /\ odd = 0
    /\ sessions = {}
    /\ inflight = <<>>

EngineNext ==
    \/ CallGenerateNextQuestion
    \/ CallGenerateUniquePreferenceKey
    \/ CallNextPriority
    \/ CallExtractPreferencesTwice
    \/ CallIsQualityResponse
    \/ CallParseAndEnhance

EngineSpec == EngineInit /\ [][EngineNext]_vars

(***************************************************************************)
(* Two respond calls of one session that may overlap. Each call runs in    *)
(* its own database session; between its commits the other call can run.  *)
(***************************************************************************)
Callers == {1, 2}

\* user_input.content of each caller
CallerAnswer == <<"Vegetarian", "Vegan">>

\* a call is "idle" before it starts, "read" once it has read the session, the
\* rows and the pending row, "saved" once it has committed the answer, "done"
\* once it has returned (status is the HTTP status)
\* sent counts the calls the caller has made
MaxResponds == 2

IdleCall ==
    [pc |-> "idle", content |-> None, conversation |-> <<>>, last_question |-> 0,
     status |-> 0, sent |-> 0]

\* respond up to "if not last_question: raise": the session and its rows are
\* read, nothing is written
RespondRead(c) ==
    /\ inflight[c].pc \in {"idle", "done"}
    /\ inflight[c].sent < MaxResponds
    /\ IF is_complete
       THEN /\ inflight' = [inflight EXCEPT ![c] =
                    [IdleCall EXCEPT !.pc = "done", !.content = CallerAnswer[c],
                                     !.status = 400, !.sent = inflight[c].sent + 1]]
            /\ resp' = HTTPError("respond", 400,
                            "Onboarding already complete! Please login to proceed.")
       ELSE IF PendingRows(turns) = {}
       THEN /\ inflight' = [inflight EXCEPT ![c] =
                    [IdleCall EXCEPT !.pc = "done", !.content = CallerAnswer[c],
                                     !.status = 400, !.sent = inflight[c].sent + 1]]
            /\ resp' = HTTPError("respond", 400,
                            "No pending question found. Onboarding may be complete.")
       ELSE /\ inflight' = [inflight EXCEPT ![c] =
                    [pc |-> "read", content |-> CallerAnswer[c], conversation |-> turns,
                     last_question |-> Max(PendingRows(turns)), status |-> 0,
                     sent |-> inflight[c].sent + 1]]
            /\ UNCHANGED resp
    /\ UNCHANGED <<turns, is_complete, now, odd, sessions>>

\* last_question.answer = user_input.content; db.commit(); db.refresh(last_question);
\* conversation.append(the row)
RespondSave(c) ==
    /\ inflight[c].pc = "read"
    /\ turns' = AnswerRow(turns, inflight[c].last_question, inflight[c].content)
    /\ inflight' = [inflight EXCEPT
            ![c].pc = "saved",
            ![c].conversation = Append(@, turns'[inflight[c].last_question])]
    /\ UNCHANGED <<is_complete, now, resp, odd, sessions>>

\* respond from the count of the answered questions on, with a provider that
\* answers the prompt as asked
RespondFinish(c) ==
    /\ inflight[c].pc = "saved"
    /\ inflight' = [inflight EXCEPT ![c].pc = "done", ![c].status = 200]
    /\ UNCHANGED <<now, odd, sessions>>
    /\ Bind(inflight[c].conversation, LAMBDA conversation :
       Bind(Len(AnsweredQuestions(conversation)), LAMBDA answered_count :
           IF answered_count >= TOTAL_QUESTIONS_REQUIRED
           THEN /\ is_complete' = TRUE
                /\ resp' = OnboardingResponse("respond",
                        "Perfect! Onboarding complete after " \o ToString(answered_count)
                            \o " questions. Please login to proceed.",
                        <<>>, 100, TRUE, None, 0, "none")
                /\ UNCHANGED turns
           ELSE Bind(GenerateNextQuestion(conversation,
                         ScriptAttempts("nominal",
                             NextPriority(ExtractUsedPreferenceKeys(conversation))),
                         now), LAMBDA ai :
                Bind(ai.dict, LAMBDA ai_response :
                   IF ai_response.is_complete
                   THEN /\ is_complete' = TRUE
                        /\ resp' = OnboardingResponse("respond",
                                "Onboarding complete! You've answered " \o ToString(answered_count)
                                    \o " questions. Please login to proceed.",
                                <<>>, 100, TRUE, None, ai.calls, ai.tier)
                        /\ UNCHANGED turns
                   ELSE /\ turns' = Append(turns, NewRequest(ai_response))
                        /\ resp' = OnboardingResponse("respond", ai_response.question,
                                ai_response.options,
                                CalculateProgress(conversation, TOTAL_QUESTIONS_REQUIRED),
                                FALSE, ai_response.preference_key, ai.calls, ai.tier)
                        /\ UNCHANGED is_complete))))

\* the start calls do not overlap with anything
StartAlone ==
    /\ \A c \in Callers : inflight[c].pc \in {"idle", "done"}
    /\ Start("nominal")

\* the session after k rounds of a question asked and answered, and the
\* question of the next round
SequentialLog(k) ==
    [i \in 1..(k + 1) |->
        IF i <= k THEN PriorityRow(i) ELSE NewRequest(
            [question |-> PromptExamples[i].question,
             preference_key |-> PriorityCategories[i]])]

ConcurrentInit ==
    /\ turns \in {<<>>} \cup {SequentialLog(k) : k \in 0..(TOTAL_QUESTIONS_REQUIRED - 1)}
    /\ is_complete = FALSE
    /\ now \in ClockStarts
    /\ resp = NoResponse
    /\ odd = 0
    /\ sessions = {}
    /\ inflight = [c \in Callers |-> IdleCall]

ConcurrentNext ==
    \/ StartAlone
    \/ \E c \in Callers : RespondRead(c)
    \/ \E c \in Callers : RespondSave(c)
    \/ \E c \in Callers : RespondFinish(c)

ConcurrentSpec == ConcurrentInit /\ [][ConcurrentNext]_vars

(***************************************************************************)
(* The table onboarding_sessions: which session a call of an IP address    *)
(* operates on. Calls do not overlap; the provider answers as asked and    *)
(* the answers are plain. A row of sessions is                             *)
(* [session_id, ip_address, expires_at, is_complete, rows].                *)
(***************************************************************************)
IpAddresses == {"10.0.0.1", "10.0.0.2"}

MaxSessions == 3
MaxSessionRows == 2
MaxHours == 3

\* timedelta(hours=2), in seconds
SESSION_SECONDS == 7200

\* the time that passes between two calls, in seconds
ElapseSeconds == 3600

\* variant: the query finds no session
LiveSessions_NoneFound(table, ip_address, t) == {}

\* filter_by(ip_address=ip_address).filter(OnboardingSession.expires_at > now)
LiveSessions(table, ip_address, t) ==
    {s \in table : s.ip_address = ip_address /\ s.expires_at > t}

\* str(uuid.uuid4()): an id no row of the table has
FreeIds(table) == (1..MaxSessions) \ {s.session_id : s \in table}

NewSession(table, ip_address, t) ==
    [session_id |-> Min(FreeIds(table)), ip_address |-> ip_address,
     expires_at |-> t + SESSION_SECONDS, is_complete |-> FALSE, rows |-> <<>>]

\* get_or_create_session: the sessions it can return (.first() has no order);
\* a session that is not in the table is the one it inserts
GetOrCreateSession(table, ip_address, t) ==
    IF LiveSessions(table, ip_address, t) # {} THEN LiveSessions(table, ip_address, t)
    ELSE IF FreeIds(table) = {} THEN {}
    ELSE {NewSession(table, ip_address, t)}

\* the table with the row of session s inserted or updated
PutSession(table, s) ==
    {x \in table : x.session_id # s.session_id} \cup {s}

\* what the caller gets, and the session id the handler worked with
SessionResponse(ip_address, session_id, body) ==
    [op |-> body.op, status |-> body.status, ip_address |-> ip_address,
     session_id |-> session_id, current_message |-> body.current_message,
     progress |-> body.progress, is_complete |-> body.is_complete]

\* start_dynamic_onboarding on the session s
StartOn(s, t) ==
    Bind(s.rows, LAMBDA conversation :
    Bind(Len(AnsweredQuestions(conversation)), LAMBDA answered_count :
        IF answered_count >= TOTAL_QUESTIONS_REQUIRED
        THEN [session |-> [s EXCEPT !.is_complete = TRUE],
              body |-> OnboardingResponse("start",
                        "Onboarding complete! You've answered all 10 questions. Please login to proceed.",
                        <<>>, 100, TRUE, None, 0, "none")]
        ELSE Bind(GenerateNextQuestion(conversation,
                      ScriptAttempts("nominal",
                          NextPriority(ExtractUsedPreferenceKeys(conversation))),
                      t), LAMBDA ai :
             Bind(ai.dict, LAMBDA ai_response :
                IF ai_response.is_complete /\ answered_count >= TOTAL_QUESTIONS_REQUIRED
                THEN [session |-> [s EXCEPT !.is_complete = TRUE],
                      body |-> OnboardingResponse("start",
                                "Onboarding complete! Please login to proceed.",
                                <<>>, 100, TRUE, None, ai.calls, ai.tier)]
                ELSE [session |-> [s EXCEPT !.rows = Append(@, NewRequest(ai_response))],
                      body |-> OnboardingResponse("start", ai_response.question,
                                ai_response.options,
                                CalculateProgress(conversation, TOTAL_QUESTIONS_REQUIRED),
                                FALSE, ai_response.preference_key, ai.calls, ai.tier)]))))

\* respond_dynamic_question on the session s
RespondOn(s, content, t) ==
    IF s.is_complete
    THEN [session |-> s,
          body |-> HTTPError("respond", 400,
                        "Onboarding already complete! Please login to proceed.")]
    ELSE IF PendingRows(s.rows) = {}
    THEN [session |-> s,
          body |-> HTTPError("respond", 400,
                        "No pending question found. Onboarding may be complete.")]
    ELSE
    Bind(Max(PendingRows(s.rows)), LAMBDA last_question :
    Bind(AnswerRow(s.rows, last_question, content), LAMBDA answered_rows :
    Bind(Append(s.rows, answered_rows[last_question]), LAMBDA conversation :
    Bind(Len(AnsweredQuestions(conversation)), LAMBDA answered_count :
        IF answered_count >= TOTAL_QUESTIONS_REQUIRED
        THEN [session |-> [s EXCEPT !.rows = answered_rows, !.is_complete = TRUE],
              body |-> OnboardingResponse("respond",
                        "Perfect! Onboarding complete after " \o ToString(answered_count)
                            \o " questions. Please login to proceed.",
                        <<>>, 100, TRUE, None, 0, "none")]
        ELSE Bind(GenerateNextQuestion(conversation,
                      ScriptAttempts("nominal",
                          NextPriority(ExtractUsedPreferenceKeys(conversation))),
                      t), LAMBDA ai :
             Bind(ai.dict, LAMBDA ai_response :
                IF ai_response.is_complete
                THEN [session |-> [s EXCEPT !.rows = answered_rows, !.is_complete = TRUE],
                      body |-> OnboardingResponse("respond",
                                "Onboarding complete! You've answered " \o ToString(answered_count)
                                    \o " questions. Please login to proceed.",
                                <<>>, 100, TRUE, None, ai.calls, ai.tier)]
                ELSE [session |-> [s EXCEPT
                            !.rows = Append(answered_rows, NewRequest(ai_response))],
                      body |-> OnboardingResponse("respond", ai_response.question,
                                ai_response.options,
                                CalculateProgress(conversation, TOTAL_QUESTIONS_REQUIRED),
                                FALSE, ai_response.preference_key, ai.calls, ai.tier)]))))))

\* set_dynamic_preferences on the session s
SetPreferencesOn(s) ==
    Bind(SelectSeq(AnsweredQuestions(s.rows),
            LAMBDA r : Truthy(r.answer) /\ ~Contains(Lower(r.answer), "please specify")),
         LAMBDA meaningful_answers :
        IF s.rows = <<>>
        THEN [session |-> s,
              body |-> HTTPError("set_preferences", 404, "No conversation history found.")]
        ELSE IF Len(meaningful_answers) < MIN_MEANINGFUL_ANSWERS
        THEN [session |-> s,
              body |-> HTTPError("set_preferences", 400,
                            "Please answer at least 5 questions to save preferences.")]
        ELSE [session |-> [s EXCEPT !.is_complete = TRUE],
              body |-> OnboardingResponse("set_preferences",
                            "Preferences saved successfully", <<>>, 0, FALSE, None, 0, "none")])

\* a handler: the session is got or created, then the handler runs on it
Handle(ip_address, s, out) ==
    /\ Len(out.session.rows) <= MaxSessionRows
    /\ sessions' = PutSession(sessions, out.session)
    /\ resp' = SessionResponse(ip_address, s.session_id, out.body)

SessionStart(ip_address) ==
    /\ UNCHANGED <<turns, is_complete, now, odd, inflight>>
    /\ \E s \in GetOrCreateSession(sessions, ip_address, now) :
            Handle(ip_address, s, StartOn(s, now))

SessionRespond(ip_address) ==
    /\ UNCHANGED <<turns, is_complete, now, odd, inflight>>
    /\ \E s \in GetOrCreateSession(sessions, ip_address, now), content \in PlainAnswers :
            Handle(ip_address, s, RespondOn(s, content, now))

SessionSetPreferences(ip_address) ==
    /\ UNCHANGED <<turns, is_complete, now, odd, inflight>>
    /\ \E s \in GetOrCreateSession(sessions, ip_address, now) :
            Handle(ip_address, s, SetPreferencesOn(s))

\* reset_onboarding: filter_by(ip_address=ip_address).first() is any of the
\* sessions of the address, expired or not; it is deleted with its rows
ResetOnboarding(ip_address) ==
    /\ UNCHANGED <<turns, is_complete, now, odd, inflight>>
    /\ resp' = [op |-> "reset", status |-> 200, ip_address |-> ip_address,
                session_id |-> None, current_message |-> "Onboarding reset successfully",
                progress |-> 0, is_complete |-> FALSE]
    /\ IF \E s \in sessions : s.ip_address = ip_address
       THEN \E existing_session \in {s \in sessions : s.ip_address = ip_address} :
                sessions' = sessions \ {existing_session}
       ELSE UNCHANGED sessions

\* time passes between two calls
Elapse ==
    /\ \E t0 \in ClockStarts : now < t0 + MaxHours * ElapseSeconds
    /\ now' = now + ElapseSeconds
    /\ UNCHANGED <<turns, is_complete, resp, odd, sessions, inflight>>

SessionInit ==
    /\ turns = <<>>
    /\ is_complete = FALSE
    /\ now \in ClockStarts
    /\ resp = NoResponse
    /\ odd = 0
    /\ sessions = {}
    /\ inflight = <<>>

SessionNext ==
    \/ \E ip_address \in IpAddresses : SessionStart(ip_address)
    \/ \E ip_address \in IpAddresses : SessionRespond(ip_address)
    \/ \E ip_address \in IpAddresses : SessionSetPreferences(ip_address)
    \/ \E ip_address \in IpAddresses : ResetOnboarding(ip_address)
    \/ Elapse

SessionSpec == SessionInit /\ [][SessionNext]_vars

(***************************************************************************)
(* Properties                                                              *)
(***************************************************************************)
\* C1: in every reachable state at most one turn of the session is unanswered,
\* so the questions emitted are the answered turns plus 0 or 1.
C1_AtMostOneUnanswered ==
    LET answered == {i \in 1..Len(turns) : turns[i].answer # None}
    IN  /\ Cardinality(PendingRows(turns)) <= 1
        /\ Len(turns) - Cardinality(answered) \in {0, 1}

\* C2: the response of a start or respond call has is_complete = true if and
\* only if the session then has at least 10 answered turns.
C2_CompleteIffTenAnswered ==
    (resp.op \in {"start", "respond"} /\ resp.status = 200)
        => (resp.is_complete <=> Len(AnsweredQuestions(turns)) >= 10)

\* C3: the preference keys of the answered turns are pairwise distinct.
C3_AnsweredKeysDistinct ==
    \A i, j \in 1..Len(turns) :
        (i < j /\ Truthy(turns[i].answer) /\ Truthy(turns[j].answer))
            => turns[i].preference_key # turns[j].preference_key

\* C5: a session whose is_complete flag is true has at least 10 answered turns.
C5_CompleteImpliesTenAnswered ==
    is_complete => Len(AnsweredQuestions(turns)) >= 10

\* C6: once is_complete is true, no start or respond call appends a turn or
\* changes the answer of a turn.
C6_ImmutableOnceComplete ==
    [][is_complete =>
        /\ Len(turns') = Len(turns)
        /\ \A i \in 1..Len(turns) : turns'[i].answer = turns[i].answer]_vars

\* C9: a start or respond call that leaves fewer than 10 answered turns returns
\* is_complete = false, emits a next question and does not complete the session.
C9_NoEarlyCompletion ==
    [][(/\ resp' # resp
        /\ resp'.op \in {"start", "respond"}
        /\ resp'.status = 200
        /\ Len(AnsweredQuestions(turns')) < 10)
       => (/\ ~resp'.is_complete
           /\ Len(resp'.options) = 5
           /\ PendingRows(turns') # {}
           /\ is_complete' = is_complete)]_vars

\* C10: when no attempt of the provider yields a usable text, the candidate is
\* the first creative question whose key is unused; the emergency question is
\* returned only when every creative key is used.
C10_CreativeBankAfterRetries ==
    \A script \in {"all_empty", "all_raise", "all_short", "empty_short_raise"} :
        LET used_keys == ExtractUsedPreferenceKeys(turns)
            total_answered == Len(AnsweredQuestions(turns))
            candidate == GenerateNextQuestion(
                            turns, ScriptAttempts(script, NextPriority(used_keys)), now).dict
            creative_questions == CreativeQuestions(total_answered)
            unused == {i \in 1..Len(creative_questions) :
                            creative_questions[i].key \notin used_keys}
        IN  total_answered < 10 =>
                IF unused # {}
                THEN candidate.preference_key = creative_questions[Min(unused)].key
                ELSE candidate = EmergencyDynamicGeneration(Len(turns), now)

\* C4: every question generated for a log of fewer than 10 answered turns,
\* whatever the provider did on its attempts, has a question of at least 10
\* characters, exactly 5 options and a key matching ^[a-z][a-z0-9_]*$.
C4_CandidateStructurallyValid ==
    (/\ resp.op \in {"start", "respond"}
     /\ resp.status = 200
     /\ ~resp.is_complete)
    => (/\ resp.tier \in {"llm", "alternative", "emergency"}
        /\ Len(resp.current_message) >= 10
        /\ Len(resp.options) = 5
        /\ MatchesKeyPattern(resp.preference_key)
        /\ turns[Len(turns)].question = resp.current_message)

C4_Witness ==
    /\ resp.op = "respond" /\ resp.status = 200
    /\ resp.tier = "emergency" /\ resp.calls = MAX_ATTEMPTS
    /\ Len(resp.options) = 5

\* C7: a respond call on a session that is complete, or that has no unanswered
\* turn, is rejected with an error and leaves the turns and is_complete as
\* they were.
C7_RejectedRespondChangesNothing ==
    [][(/\ is_complete \/ PendingRows(turns) = {}
        /\ resp' # resp
        /\ resp'.op = "respond")
       => (/\ resp'.status = 400
           /\ turns' = turns
           /\ is_complete' = is_complete)]_vars

C7_Witness ==
    /\ is_complete
    /\ PendingRows(turns) # {}
    /\ resp.op = "respond" /\ resp.status = 400

C11_ReusedKeyBecomesNextPriority ==
    LET used_keys == ExtractUsedPreferenceKeys(turns)
        next_priority == NextPriority(used_keys)
    IN  (/\ "dietary_style" \in used_keys
         /\ Len(AnsweredQuestions(turns)) < ENGINE_TOTAL_QUESTIONS
         /\ ParseResponse(ReusedKeyText, Len(AnsweredQuestions(turns))).preference_key
                = "dietary_style")
        => GenerateNextQuestion(turns, ScriptAttempts("reused_key", next_priority), now)
                .dict.preference_key = next_priority

\* C13: a turn whose key is outside the priority list comes only after answered
\* turns that cover all 10 priority categories.
C13_PriorityCategoriesFirst ==
    \A i \in 1..Len(turns) :
        ~InSeq(turns[i].preference_key, PriorityCategories)
            => \A c \in 1..Len(PriorityCategories) :
                    PriorityCategories[c] \in
                        ExtractUsedPreferenceKeys(SubSeq(turns, 1, i - 1))

\* C14: the response that reports completion carries the summary lines built
\* from the first (up to) 3 answered turns of the session.
C14_CompletionCarriesSummary ==
    [][(/\ resp' # resp
        /\ resp'.op \in {"start", "respond"}
        /\ resp'.status = 200
        /\ resp'.is_complete)
       => (/\ SummaryParts(turns') # <<>>
           /\ Contains(resp'.current_message, JoinLines(SummaryParts(turns'))))]_vars

\* C15: no step of a session removes a key from the covered categories, the
\* keys of the answered turns.
C15_CoveredCategoriesGrow ==
    [][ExtractUsedPreferenceKeys(turns) \subseteq ExtractUsedPreferenceKeys(turns')]_vars

C15_Witness ==
    /\ resp.op = "respond" /\ resp.status = 200
    /\ Cardinality(ExtractUsedPreferenceKeys(turns)) >= 3
    /\ PendingRows(turns) # {}

\* C19: an accepted respond call that does not complete the session stores the
\* answer on the turn that was outstanding, changes no other turn, appends
\* exactly one turn, which is unanswered, and leaves the session not complete.
C19_RespondAnswersAndAppendsOne ==
    [][(/\ turns' # turns
        /\ resp'.op = "respond"
        /\ ~resp'.is_complete)
       => (/\ PendingRows(turns) # {}
           /\ Len(turns') = Len(turns) + 1
           /\ turns'[Len(turns')].answer = None
           /\ turns'[Max(PendingRows(turns))].answer \in PlainAnswers \cup OddAnswers
           /\ \A j \in 1..Len(turns) :
                IF j = Max(PendingRows(turns))
                THEN /\ turns'[j].question = turns[j].question
                     /\ turns'[j].preference_key = turns[j].preference_key
                ELSE turns'[j] = turns[j]
           /\ ~is_complete /\ ~is_complete')]_vars

C19_Witness ==
    /\ resp.op = "respond" /\ resp.status = 200 /\ ~resp.is_complete
    /\ Len(turns) = 3
    /\ turns[1].answer = "Vegetarian" /\ turns[2].answer = "Vegetarian"
    /\ turns[3].answer = None
    /\ ~is_complete

\* C12: the key _generate_unique_preference_key returns is not among the used
\* keys, also when the base key and its variants _1 .. _9 are all used.
C12_UniqueKeyNotUsed ==
    resp.op = "generate_unique_preference_key"
        => resp.key \notin ExtractUsedPreferenceKeys(turns)

C17_RejectedTextIsRetried ==
    resp.op = "generate_next_question"
        => \A i \in 1..(MAX_ATTEMPTS - 1) :
                (/\ resp.ai.calls >= i
                 /\ ~resp.attempts[i].raises
                 /\ ParseResponse(resp.attempts[i].text, 0).exc)
                => resp.ai.calls >= i + 1

C17_Witness ==
    /\ resp.op = "generate_next_question"
    /\ resp.attempts[1] = Returns(TinyText)
    /\ resp.attempts[2] = Returns(EmptyText)
    /\ resp.ai.calls = 3
    /\ resp.ai.tier = "llm"

\* C18: whatever the provider does on its attempts, a generation makes at most
\* 3 calls and returns a turn: a question, 5 options and a key.
C18_AtMostThreeCallsThenATurn ==
    resp.op = "generate_next_question"
        => (/\ resp.ai.calls <= 3
            /\ resp.ai.dict.question # ""
            /\ Len(AnsweredQuestions(turns)) < ENGINE_TOTAL_QUESTIONS
                => (/\ Len(resp.ai.dict.options) = 5
                    /\ Truthy(resp.ai.dict.preference_key)
                    /\ ~resp.ai.dict.is_complete))

C18_Witness ==
    /\ resp.op = "generate_next_question"
    /\ resp.attempts = <<Raises, Returns(EmptyText), Returns(ShortText)>>
    /\ resp.ai.calls = 3
    /\ resp.ai.tier = "emergency"
    /\ Len(resp.ai.dict.options) = 5

\* C20: the next priority category is the first entry of the 10-entry priority
\* list that is not covered, general_preference when all are covered, and
\* dietary_style for an empty log.
C20_NextPriorityIsFirstUncovered ==
    resp.op = "next_priority"
        => LET covered == ExtractUsedPreferenceKeys(turns)
               priority == <<"dietary_style", "spice_tolerance", "food_allergies",
                             "regional_cuisines", "health_conditions", "family_needs",
                             "cooking_constraints", "meal_complexity",
                             "fasting_observances", "general_preference">>
               uncovered == {i \in 1..10 : priority[i] \notin covered}
           IN  /\ uncovered # {} =>
                    /\ resp.category \notin covered
                    /\ \E i \in uncovered :
                        /\ resp.category = priority[i]
                        /\ \A j \in 1..(i - 1) : priority[j] \in covered
               /\ uncovered = {} => resp.category = "general_preference"
               /\ turns = <<>> => resp.category = "dietary_style"

C20_Witness ==
    /\ resp.op = "next_priority"
    /\ resp.category = "health_conditions"
    /\ "fasting_observances" \in ExtractUsedPreferenceKeys(turns)
    /\ Cardinality(ExtractUsedPreferenceKeys(turns)) = 6

\* C21: the quality predicate accepts a candidate exactly when its question is
\* present with at least 10 characters and at least 3 words, it has exactly 5
\* options, and its key matches ^[a-z][a-z0-9_]*$.
C21_QualityIffThreeWords ==
    resp.op = "is_quality_response"
        => LET question == resp.response.question
               key == resp.response.preference_key
               words == {i \in 1..Len(question) :
                            /\ CharAt(question, i) \notin SpaceSet
                            /\ i = 1 \/ CharAt(question, i - 1) \in SpaceSet}
           IN  resp.result <=>
                    /\ Len(question) >= 10
                    /\ Cardinality(words) >= 3
                    /\ Len(resp.response.options) = 5
                    /\ key # None /\ MatchesKeyPattern(key)

\* C22: when a line of the text carries the "Question:" label, the question the
\* parser extracts is the text of that line, whatever lines come before it.
C22_QuestionLabelPreferred ==
    (resp.op = "parse_and_enhance" /\ ~resp.parsed.exc)
        => LET lines == StrippedLines(resp.ai_text)
               labelled == {i \in 1..Len(lines) :
                                /\ Len(lines[i]) > 9
                                /\ Lower(SubSeq(lines[i], 1, 9)) = "question:"}
           IN  labelled # {}
                => resp.parsed.question
                        = Strip(SubSeq(lines[Min(labelled)], 10, Len(lines[Min(labelled)])))

\* C23: the options of the candidate are the first (up to) 4 list items of the
\* text in the order met, padded to 4 with "Option n", then the literal
\* "Other (please specify)" as the only such option.
C23_FourItemsThenOneOther ==
    (resp.op = "parse_and_enhance" /\ ~resp.parsed.exc)
        => LET items == SelectSeq(ExtractOptions(StrippedLines(resp.ai_text)),
                                  LAMBDA item : item # "Other (please specify)")
               options == resp.final.options
           IN  /\ Len(options) = 5
               /\ options[5] = "Other (please specify)"
               /\ \A i \in 1..4 :
                    options[i] = IF i <= Len(items) THEN items[i]
                                 ELSE "Option " \o ToString(i)

\* C24: a text with a completion marker is parsed to a response with
\* is_complete = true and the whole text as its message.
C24_CompletionMarkerParsed ==
    (resp.op = "parse_and_enhance" /\ Contains(Lower(resp.ai_text), "onboarding complete"))
        => (/\ ~resp.parsed.exc
            /\ resp.parsed.is_complete
            /\ resp.parsed.question = resp.ai_text)

\* C25: every respond call that returns without error raises the number of
\* answered turns of the session by exactly 1, whatever the answer sent,
\* the empty string included.
C25_AcceptedRespondAddsOneAnswered ==
    [][(resp'.op = "respond" /\ resp'.status = 200 /\ turns' # turns)
        => Len(AnsweredQuestions(turns')) = Len(AnsweredQuestions(turns)) + 1]_vars

\* C26: when two respond calls of a session overlap, the answers of the two
\* accepted calls are stored on different turns and the session is left with
\* at most one unanswered turn (the session was opened by one start call).
C26_OverlappingAnswersOnDistinctTurns ==
    (/\ odd = 0
     /\ \A c \in Callers : inflight[c].pc = "done" /\ inflight[c].status = 200)
        => (/\ inflight[1].last_question # inflight[2].last_question
            /\ Cardinality(PendingRows(turns)) <= 1)

\* C27: after any sequence of start, respond, set-preferences and reset calls
\* that do not overlap, an IP address has at most one session that is not
\* expired, and when it has one, that session is the one a call of the
\* address gets from get_or_create_session.
C27_OneLiveSessionPerAddress ==
    [][/\ \A ip_address \in IpAddresses :
            Cardinality({s \in sessions' :
                /\ s.ip_address = ip_address /\ s.expires_at > now'}) <= 1
       /\ (now' = now /\ resp'.op \in {"start", "respond", "set_preferences"})
            => \A s \in sessions :
                    (s.ip_address = resp'.ip_address /\ s.expires_at > now)
                        => resp'.session_id = s.session_id]_vars

C27_Witness ==
    /\ resp.op = "start" /\ resp.status = 200
    /\ \E expired \in sessions, live \in sessions :
        /\ expired.ip_address = resp.ip_address /\ expired.expires_at <= now
        /\ live.ip_address = resp.ip_address /\ live.expires_at > now
        /\ live.session_id = resp.session_id
        /\ Len(live.rows) = 2

\* C28: after a reset call of an IP address has returned, the next start call
\* of that address operates on a session without turns (so that the session
\* has one turn after it), also when the address had an expired and a
\* non-expired session at the reset.
C28_StartAfterResetOnEmptySession ==
    [][(/\ resp.op = "reset" /\ resp.status = 200
        /\ resp'.op = "start" /\ resp'.ip_address = resp.ip_address)
       => \A s \in sessions' :
            s.session_id = resp'.session_id => Len(s.rows) = 1]_vars

\* C29: the progress of every start and respond response is an integer in
\* 0..100, it is 100 exactly when the response has is_complete = true, and it
\* is not below the progress of an earlier response of the session: not below
\* that of the response before it, and not below the share of answered turns
\* the session already had, which never shrinks.
C29_ProgressBoundedAndMonotone ==
    [][/\ Len(AnsweredQuestions(turns')) >= Len(AnsweredQuestions(turns))
       /\ (resp'.op \in {"start", "respond"} /\ resp'.status = 200)
            => (/\ resp'.progress \in 0..100
                /\ resp'.progress = 100 <=> resp'.is_complete
                /\ (resp.op \in {"start", "respond"} /\ resp.status = 200)
                        => resp'.progress >= resp.progress
                /\ \A p \in 0..100 :
                        p * 9 <= Len(AnsweredQuestions(turns)) * 100
                            => resp'.progress >= p)]_vars

C29_Witness ==
    /\ resp.op = "respond" /\ resp.status = 200
    /\ resp.progress = 88 /\ ~resp.is_complete
    /\ Len(AnsweredQuestions(turns)) = 8
    /\ Len(turns) = 10

\* C30, as stated: the keys of the mapping extract_preferences returns are the
\* 10 priority keys and the keys of the turns that have a key and a non-empty
\* answer; a priority key without such a turn has its default value.
C30_KeysOfNonEmptyAnswers ==
    resp.op = "extract_preferences"
        => LET priority == {"dietary_style", "spice_tolerance", "food_allergies",
                            "regional_cuisines", "health_conditions", "family_needs",
                            "cooking_constraints", "meal_complexity",
                            "fasting_observances", "general_preference"}
               contributing == {i \in 1..Len(turns) :
                                    /\ turns[i].preference_key \notin {None, ""}
                                    /\ turns[i].answer \notin {None, ""}}
           IN  /\ DOMAIN resp.first
                    = priority \cup {turns[i].preference_key : i \in contributing}
               /\ \A k \in priority :
                    (\A i \in contributing : turns[i].preference_key # k)
                        => resp.first[k] = DefaultPreferences[k]

\* C30, amended: the keys of the mapping extract_preferences returns are the
\* 10 priority keys and the keys of the turns that have a key and an answer
\* that is not blank (not empty once leading and trailing whitespace is
\* removed); a priority key without such a turn has its default value, and
\* every other key has the normalized answer of such a turn.
C30_KeysOfNonBlankAnswers ==
    resp.op = "extract_preferences"
        => LET priority == {"dietary_style", "spice_tolerance", "food_allergies",
                            "regional_cuisines", "health_conditions", "family_needs",
                            "cooking_constraints", "meal_complexity",
                            "fasting_observances", "general_preference"}
               contributing == {i \in 1..Len(turns) :
                                    /\ turns[i].preference_key \notin {None, ""}
                                    /\ turns[i].answer # None
                                    /\ Strip(turns[i].answer) # ""}
           IN  /\ DOMAIN resp.first
                    = priority \cup {turns[i].preference_key : i \in contributing}
               /\ \A k \in DOMAIN resp.first :
                    IF \A i \in contributing : turns[i].preference_key # k
                    THEN resp.first[k] = DefaultPreferences[k]
                    ELSE \E i \in contributing :
                            /\ turns[i].preference_key = k
                            /\ resp.first[k] = NormalizeAnswer(Strip(turns[i].answer))

C30_Witness ==
    /\ resp.op = "extract_preferences"
    /\ Len(turns) = 2
    /\ turns[1].preference_key = "snack_preference" /\ turns[1].answer = "  "
    /\ turns[2].preference_key = "dietary_style" /\ turns[2].answer = " vegan "
    /\ "snack_preference" \notin DOMAIN resp.first
    /\ resp.first["dietary_style"] = "Vegan"
    /\ resp.first["spice_tolerance"] = "Medium"

====
